---- MODULE Spec2Model ----
(***************************************************************************)
(* ifcqselect: the IFC text cache, the element matcher, the three-pass     *)
(* quantity resolver, the full-index parser and the batch operator of      *)
(* src/ifcqselectv100.py.                                                  *)
(*                                                                         *)
(* Text is modelled at the level of tokens: a line of the file is a       *)
(* sequence of tokens ("#12", "=", "IFCSLAB", "(", "'G1'", ",", "$", ...)  *)
(* and the string operations of the code (split, replace, find, rfind,     *)
(* substring tests, regular expressions) are operators on such sequences. *)
(***************************************************************************)
EXTENDS Integers, Sequences, FiniteSets, TLC

VARIABLES
    decls,      \* the declarations the source IFC file was written from
    files,      \* source files: path -> [exists, readable, mtime, content]
    cache,      \* files of ~/.cache/ifcqselect/: stem -> [exists, mtime, content]
    now,        \* the system clock
    diskFull,   \* whether the cache volume runs out of space during a copy
    objects,    \* scene objects: id -> [name, IfcGuid, GlobalId, hasBIM, BIMProperties]
    selected,   \* context.selected_objects, a sequence of object ids
    ifc_path,   \* props.ifc_file_path
    pc,         \* position of the operator / call under way
    idx,        \* number of objects whose pull has returned
    updated,    \* OBJECT_OT_pull_all_ifc_quantities.execute: updated
    errors,     \* OBJECT_OT_pull_all_ifc_quantities.execute: errors
    last,       \* what the most recent call returned
    writes,     \* number of environment writes so far
    start       \* the cache and the objects as they were when execute was entered

vars == <<decls, files, cache, now, diskFull, objects, selected, ifc_path,
          pc, idx, updated, errors, last, writes, start>>

(***************************************************************************)
(* Bounds of the model.                                                    *)
(***************************************************************************)
MaxMembers == 3     \* members of a quantity set: 1..MaxMembers
MaxObjs    == 2     \* objects of a batch: 1..MaxObjs
MaxTime    == 2     \* modification times and clock: 0..MaxTime
MaxWrites  == 2     \* environment writes to source files in one run

(***************************************************************************)
(* Python values.                                                          *)
(***************************************************************************)
None == "<None>"
Truthy(s) == s \notin {None, ""}
EmptyMap == [k \in {} |-> 0]
Last(s) == s[Len(s)]

(***************************************************************************)
(* Tokens.                                                                 *)
(***************************************************************************)
Ref(n) == "#" \o ToString(n)
Quote(s) == "'" \o s \o "'"
RefNums == 0 .. 40
RefToks == {Ref(n) : n \in RefNums}
RefNum(tok) == CHOOSE n \in RefNums : Ref(n) = tok
Guids == {"G1", "G2", "G3"}
Labels == {"Wall01", "Beam01", "BaseQuantities", ""}
QNames == {"NetArea", "GrossArea", "NetVolume", "GrossVolume", "Length"}
\* quoted tokens with at least one character between the quotes: '([^']+)'
Strings == Guids \cup Labels \cup QNames \cup {"r", "q", "Missing"}
QuotedToks == {Quote(s) : s \in Strings \ {""}}
\* quoted tokens whose content is word characters only: '([\w_]+)'
WordQuotedToks == QuotedToks
Unquote(tok) == CHOOSE s \in Strings : Quote(s) = tok
ElementKeywords == {"IFCSLAB", "IFCBEAM", "IFCWALL"}
Keywords == ElementKeywords \cup
            {"IFCRELDEFINESBYPROPERTIES", "IFCELEMENTQUANTITY", "IFCPROPERTYSET",
             "IFCQUANTITYAREA", "IFCQUANTITYVOLUME", "IFCQUANTITYLENGTH"}
\* 'IFCQUANTITY' in l, 'IFCELEMENTQUANTITY' in l, ...: substring tests on keywords
KeywordContains(kw, sub) ==
    CASE sub = "IFCQUANTITY" -> kw \in {"IFCQUANTITYAREA", "IFCQUANTITYVOLUME", "IFCQUANTITYLENGTH"}
      [] OTHER -> kw = sub

\* float(tok): the literals of the model and the numbers they denote, in tenths
NumVal == ("12.5" :> 125) @@ ("15.0" :> 150) @@ ("15" :> 150) @@ ("7.0" :> 70) @@
          ("3.5" :> 35)
IsFloat(s) == Len(s) = 1 /\ s[1] \in DOMAIN NumVal
\* tokens made of the characters [\d\.Ee\+-] only
BadNumericToks == {"1.2.3"}
NumericCharToks == DOMAIN NumVal \cup BadNumericToks

(***************************************************************************)
(* String operations on token sequences.                                   *)
(***************************************************************************)
\* sub in s
Contains(s, sub) ==
    \E i \in 1 .. (Len(s) - Len(sub) + 1) : SubSeq(s, i, i + Len(sub) - 1) = sub
HasTok(s, t) == \E i \in 1 .. Len(s) : s[i] = t
\* kw in l, for a type keyword kw
HasKeyword(l, kw) == \E i \in 1 .. Len(l) : l[i] \in Keywords /\ KeywordContains(l[i], kw)
\* s.find(t), s.rfind(t): 0 when absent
Find(s, t) == IF HasTok(s, t) THEN CHOOSE i \in 1 .. Len(s) :
                                      s[i] = t /\ \A j \in 1 .. (i - 1) : s[j] # t
              ELSE 0
RFind(s, t) == IF HasTok(s, t) THEN CHOOSE i \in 1 .. Len(s) :
                                       s[i] = t /\ \A j \in (i + 1) .. Len(s) : s[j] # t
               ELSE 0
\* s.split(sep)
RECURSIVE Split(_, _)
Split(s, sep) ==
    IF ~HasTok(s, sep) THEN <<s>>
    ELSE LET i == Find(s, sep)
         IN  <<SubSeq(s, 1, i - 1)>> \o Split(SubSeq(s, i + 1, Len(s)), sep)
\* s.replace(t, '') for every t of ts
Remove(s, ts) == SelectSeq(s, LAMBDA t : t \notin ts)
\* part.startswith('#')
StartsWithHash(part) == Len(part) > 0 /\ part[1] \in RefToks
\* ''.join(tokens)
RECURSIVE Join(_)
Join(s) == IF s = <<>> THEN "" ELSE s[1] \o Join(Tail(s))

(***************************************************************************)
(* The text of the declarations, one per line: <ref>=<TYPE>(<args>);       *)
(*   element       #12=IFCSLAB('G1',$,'Wall01',$);                         *)
(*   relationship  #40=IFCRELDEFINESBYPROPERTIES('r',$,$,$,(#12),#20);     *)
(*   quantity set  #20=IFCELEMENTQUANTITY('q',$,'BaseQuantities',$,$,(#30,#31)); *)
(*   property set  #5=IFCPROPERTYSET('q',$,'Wall01',$,(#6));               *)
(*   quantity      #30=IFCQUANTITYAREA('NetArea',$,$,12.5,$);              *)
(*                 #30=IFCQUANTITYAREA('NetArea',$$,12.5,$);  (fmt "dd")   *)
(***************************************************************************)
RECURSIVE RefList(_)
RefList(ns) ==
    IF ns = <<>> THEN <<>>
    ELSE IF Len(ns) = 1 THEN <<Ref(ns[1])>>
    ELSE <<Ref(ns[1]), ",">> \o RefList(Tail(ns))

ElementLine(e) ==
    <<Ref(e.ref), "=", e.kw, "(", Quote(e.guid), ",", "$", ",", Quote(e.label),
      ",", "$", ")", ";">>

RelLine(r) ==
    <<Ref(r.ref), "=", "IFCRELDEFINESBYPROPERTIES", "(", Quote("r"), ",", "$", ",",
      "$", ",", "$", ",", "(">> \o RefList(r.subjects) \o
    <<")", ",", Ref(r.target), ")", ";">>

\* IFCELEMENTQUANTITY has one more argument than IFCPROPERTYSET
QSetLine(q) ==
    <<Ref(q.ref), "=", q.kw, "(", Quote("q"), ",", "$", ",", Quote(q.name), ",">> \o
    (IF q.kw = "IFCPROPERTYSET" THEN <<"$", ",", "(">> ELSE <<"$", ",", "$", ",", "(">>) \o
    RefList(q.members) \o <<")", ")", ";">>

QuantityLine(q) ==
    <<Ref(q.ref), "=", q.kw, "(", Quote(q.name), ",">> \o
    (IF q.fmt = "dd" THEN <<"$", "$">> ELSE <<"$", ",", "$">>) \o
    <<",", q.val, ",", "$", ")", ";">>

MapLines(Line(_), ds) == [i \in 1 .. Len(ds) |-> Line(ds[i])]

\* the file written from the declarations d, in file order
FileText(d) ==
    MapLines(QSetLine, d.pre) \o MapLines(ElementLine, d.elems) \o MapLines(RelLine, d.rels) \o
    MapLines(QSetLine, d.qsets) \o MapLines(QuantityLine, d.quants)

(***************************************************************************)
(* IFC TXT cache utilities.                                                *)
(***************************************************************************)
\* os.path.basename, os.path.splitext on a path [dir, stem, ext]
basename(p) == [stem |-> p.stem, ext |-> p.ext]
splitext0(base) == base.stem

\* the file name under ~/.cache/ifcqselect/ : the stem, with '.txt'
get_ifc_txt_cache_path(p) == splitext0(basename(p))

NoPath == [dir |-> "", stem |-> "", ext |-> ""]
NoFile == [exists |-> FALSE, mtime |-> 0, content |-> <<>>]

\* shutil.copy2(src, dst): the outcomes a copy can have.  The source is opened
\* first (a missing or unreadable source raises before the destination is
\* touched); the destination is then opened for writing, which truncates it,
\* and filled line by line; the modification time is copied last.
copy2(f, c, src, txt, t, full) ==
    IF ~f[src].exists \/ ~f[src].readable
    THEN {[raised |-> TRUE, copied |-> FALSE, cache |-> c]}
    ELSE IF full
    THEN {[raised |-> TRUE, copied |-> TRUE,
           cache |-> [c EXCEPT ![txt] = [exists |-> TRUE, mtime |-> t,
                                         content |-> SubSeq(f[src].content, 1, k)]]]
          : k \in 0 .. (Len(f[src].content) - 1)}
    ELSE {[raised |-> FALSE, copied |-> TRUE,
           cache |-> [c EXCEPT ![txt] = [exists |-> TRUE, mtime |-> f[src].mtime,
                                         content |-> f[src].content]]]}

\* ensure_ifc_txt_cache with the test `<=` where line 857 has `<`
ensure_ifc_txt_cache_le(f, c, src, t, full) ==
    LET txt == get_ifc_txt_cache_path(src)
    IN  IF ~c[txt].exists
        THEN {[raised |-> o.raised, copied |-> o.copied, cache |-> o.cache, ret |-> txt]
              : o \in copy2(f, c, src, txt, t, full)}
        ELSE IF ~f[src].exists
        THEN {[raised |-> TRUE, copied |-> FALSE, cache |-> c, ret |-> txt]}
        ELSE IF c[txt].mtime <= f[src].mtime
        THEN {[raised |-> o.raised, copied |-> o.copied, cache |-> o.cache, ret |-> txt]
              : o \in copy2(f, c, src, txt, t, full)}
        ELSE {[raised |-> FALSE, copied |-> FALSE, cache |-> c, ret |-> txt]}

\* ensure_ifc_txt_cache(ifc_path): the outcomes [raised, copied, cache, ret]
ensure_ifc_txt_cache(f, c, src, t, full) ==
    LET txt == get_ifc_txt_cache_path(src)
    IN  IF ~c[txt].exists
        THEN {[raised |-> o.raised, copied |-> o.copied, cache |-> o.cache, ret |-> txt]
              : o \in copy2(f, c, src, txt, t, full)}
        ELSE IF ~f[src].exists              \* os.path.getmtime(ifc_path) raises
        THEN {[raised |-> TRUE, copied |-> FALSE, cache |-> c, ret |-> txt]}
        ELSE IF c[txt].mtime < f[src].mtime
        THEN {[raised |-> o.raised, copied |-> o.copied, cache |-> o.cache, ret |-> txt]
              : o \in copy2(f, c, src, txt, t, full)}
        ELSE {[raised |-> FALSE, copied |-> FALSE, cache |-> c, ret |-> txt]}

(***************************************************************************)
(* IFC element matching utilities.                                         *)
(***************************************************************************)
NoLine == <<>>

\* the first line of txt_lines that satisfies P, or None
FirstLine(txt_lines, P(_)) ==
    IF \E i \in 1 .. Len(txt_lines) : P(txt_lines[i])
    THEN txt_lines[CHOOSE i \in 1 .. Len(txt_lines) :
                       P(txt_lines[i]) /\ \A j \in 1 .. (i - 1) : ~P(txt_lines[j])]
    ELSE NoLine

\* re.compile(r"IFCSLAB\('%s',\$,'([^']+)'" % re.escape(guid)).search(line)
GuidPattern(line, guid) ==
    \E i \in 1 .. (Len(line) - 6) :
        /\ line[i] = "IFCSLAB"
        /\ line[i + 1] = "("
        /\ line[i + 2] = Quote(guid)
        /\ line[i + 3] = ","
        /\ line[i + 4] = "$"
        /\ line[i + 5] = ","
        /\ line[i + 6] \in QuotedToks

find_ifc_line_by_guid(txt_lines, guid) ==
    FirstLine(txt_lines, LAMBDA line : GuidPattern(line, guid))

\* re.compile(r"IFC[A-Z]+\('([^']+)',\$,'%s'" % re.escape(name)).search(line)
NamePattern(line, name) ==
    \E i \in 1 .. (Len(line) - 6) :
        /\ line[i] \in Keywords
        /\ line[i + 1] = "("
        /\ line[i + 2] \in QuotedToks
        /\ line[i + 3] = ","
        /\ line[i + 4] = "$"
        /\ line[i + 5] = ","
        /\ line[i + 6] = Quote(name)

\* name is a token sequence such as <<"IfcWall", "/", "Wall01">>
find_ifc_line_by_name(txt_lines, name) ==
    LET n == IF HasTok(name, "/") THEN Last(Split(name, "/")) ELSE name
    IN  FirstLine(txt_lines, LAMBDA line : NamePattern(line, Join(n)))

\* obj.get('IfcGuid') or ... or obj.get('GlobalId') or ... or obj.get('globalid') or ...
ObjGuid(obj) ==
    IF Truthy(obj.IfcGuid) THEN obj.IfcGuid
    ELSE IF Truthy(obj.GlobalId) THEN obj.GlobalId
    ELSE IF Truthy(obj.globalid) THEN obj.globalid
    ELSE None

\* the part of obj.name before its first '/': split('/')[0]
ObjName_first_part(obj) == IF obj.name # <<>> THEN Split(obj.name, "/")[1] ELSE <<>>

\* obj.name.split('/')[-1] if obj.name else None
ObjName(obj) == IF obj.name # <<>> THEN Last(Split(obj.name, "/")) ELSE <<>>

\* the identifier strategy tried first, the name strategy as the fallback
match_ifc_element_guid_first(obj, txt_lines) ==
    LET guid == ObjGuid(obj)
        name == ObjName(obj)
        byguid == IF Truthy(guid) THEN find_ifc_line_by_guid(txt_lines, guid) ELSE NoLine
    IN  IF byguid = NoLine /\ name # <<>>
        THEN find_ifc_line_by_name(txt_lines, name)
        ELSE byguid

match_ifc_element(obj, txt_lines) ==
    LET guid == ObjGuid(obj)
        name == ObjName(obj)
        byname == IF name # <<>> THEN find_ifc_line_by_name(txt_lines, name) ELSE NoLine
    IN  IF byname = NoLine /\ Truthy(guid)
        THEN find_ifc_line_by_guid(txt_lines, guid)
        ELSE byname

\* guid not in line, name not in line: s occurs in the text of the line
InLine(s, line) ==
    LET text == Join(line)
    IN  \E i \in 1 .. (Len(text) - Len(s) + 1) : SubSeq(text, i, i + Len(s) - 1) = s

\* the [WARNING] lines match_ifc_element prints
match_warnings(obj, txt_lines) ==
    LET guid == ObjGuid(obj)
        name == ObjName(obj)
        byname == IF name # <<>> THEN find_ifc_line_by_name(txt_lines, name) ELSE NoLine
        byguid == IF byname = NoLine /\ Truthy(guid)
                  THEN find_ifc_line_by_guid(txt_lines, guid) ELSE NoLine
    IN  (IF byname # NoLine /\ Truthy(guid) /\ ~InLine(guid, byname)
         THEN {"Name matched but GUID not found in line"} ELSE {})
        \cup
        (IF byguid # NoLine /\ name # <<>> /\ ~InLine(Join(name), byguid)
         THEN {"GUID matched but name not found in line"} ELSE {})

(***************************************************************************)
(* pull_all_ifc_quantities_to_blender: the three passes over the cache.    *)
(***************************************************************************)
Range(s) == {s[i] : i \in 1 .. Len(s)}

\* line.split('=')[0].strip() if '=' in line else None
entity_ref_of(line) == IF HasTok(line, "=") THEN Split(line, "=")[1] ELSE <<>>

\* the first pass without the test f'({entity_ref})' in l
RelPass_any_subject(txt, entity_ref) ==
    {Remove(Last(Split(txt[i], ",")), {")", ";"}) :
        i \in {j \in 1 .. Len(txt) : HasKeyword(txt[j], "IFCRELDEFINESBYPROPERTIES")}}

\* first pass: the last comma-separated field of every relationship line that
\* contains the text '(' + entity_ref + ')'
RelPass(txt, entity_ref) ==
    {Remove(Last(Split(txt[i], ",")), {")", ";"}) :
        i \in {j \in 1 .. Len(txt) :
                  /\ HasKeyword(txt[j], "IFCRELDEFINESBYPROPERTIES")
                  /\ Contains(txt[j], <<"(">> \o entity_ref \o <<")">>)}}

\* refs = [r.strip() for r in tuple_str.split(',') if r.strip().startswith('#')]
\* with tuple_str = l[l.find('(')+1 : l.rfind(')')]
SetRefs(l) ==
    LET tuple_str == SubSeq(l, Find(l, "(") + 1, RFind(l, ")") - 1)
    IN  SelectSeq(Split(tuple_str, ","), StartsWithHash)

\* second pass: qsets[set_ref] = refs, for the lines 1..n of the cache
RECURSIVE QSetPass(_, _, _)
QSetPass(txt, rels, n) ==
    IF n = 0 THEN EmptyMap
    ELSE LET l == txt[n]
             before == QSetPass(txt, rels, n - 1)
             set_ref == Split(l, "=")[1]
         IN  IF /\ (HasKeyword(l, "IFCELEMENTQUANTITY") \/ HasKeyword(l, "IFCPROPERTYSET"))
                /\ set_ref \in rels
                /\ HasTok(l, "(") /\ HasTok(l, ")")
             THEN (set_ref :> SetRefs(l)) @@ before
             ELSE before

AllQRefs(qsets) == UNION {Range(qsets[k]) : k \in DOMAIN qsets}

\* re.match(r"#\d+=IFCQUANTITY\w+\('([^']+)'[,$][^,]*,[^,]*,([^,]+)", l)
QuantityPattern(l) ==
    /\ Len(l) >= 6
    /\ l[1] \in RefToks
    /\ l[2] = "="
    /\ l[3] \in Keywords /\ KeywordContains(l[3], "IFCQUANTITY")
    /\ l[4] = "("
    /\ l[5] \in QuotedToks
    /\ l[6] \in {",", "$"}
    /\ LET rest == Split(SubSeq(l, 7, Len(l)), ",")
       IN  Len(rest) >= 3 /\ rest[3] # <<>>

\* float(parts[3].replace(')', '').replace(';', '').replace('$', '').strip())
QuantityValue(parts) == Remove(parts[4], {")", ";", "$"})

\* third pass: quantities[qname] = val, for the lines 1..n of the cache
RECURSIVE QuantityPass(_, _, _)
QuantityPass(txt, all_qrefs, n) ==
    IF n = 0 THEN EmptyMap
    ELSE LET l == txt[n]
             before == QuantityPass(txt, all_qrefs, n - 1)
             parts == Split(l, ",")
         IN  IF /\ HasKeyword(l, "IFCQUANTITY")
                /\ Split(l, "=")[1] \in all_qrefs
                /\ QuantityPattern(l)
                /\ Len(parts) > 3
                /\ IsFloat(QuantityValue(parts))
             THEN (Unquote(l[5]) :> NumVal[QuantityValue(parts)[1]]) @@ before
             ELSE before

\* the quantities the three passes resolve for the line matched
StreamQuantities(txt, line) ==
    LET rels == RelPass(txt, entity_ref_of(line))
        qsets == QSetPass(txt, rels, Len(txt))
    IN  QuantityPass(txt, AllQRefs(qsets), Len(txt))

\* lines 914-964 without the test `if not quantities` of line 961
Resolve_without_empty_test(obj, txt) ==
    LET line == match_ifc_element(obj, txt)
        quantities == StreamQuantities(txt, line)
        keep == [ok |-> FALSE, msg |-> "", hasBIM |-> obj.hasBIM,
                 BIMProperties |-> obj.BIMProperties]
    IN  IF line = NoLine THEN [keep EXCEPT !.msg = "No matching IFC element found"]
        ELSE IF entity_ref_of(line) = <<>>
        THEN [keep EXCEPT !.msg = "Could not extract entity reference"]
        ELSE [ok |-> TRUE, msg |-> "Copied", hasBIM |-> TRUE,
              BIMProperties |-> quantities]

\* lines 914-964, on the lines txt of the cache: (ok, msg) and BIMProperties
Resolve(obj, txt) ==
    LET line == match_ifc_element(obj, txt)
        quantities == StreamQuantities(txt, line)
        keep == [ok |-> FALSE, msg |-> "", hasBIM |-> obj.hasBIM,
                 BIMProperties |-> obj.BIMProperties]
    IN  IF line = NoLine THEN [keep EXCEPT !.msg = "No matching IFC element found"]
        ELSE IF entity_ref_of(line) = <<>>
        THEN [keep EXCEPT !.msg = "Could not extract entity reference"]
        ELSE IF quantities = EmptyMap
        THEN [keep EXCEPT !.msg = "No IFC quantities found"]
        ELSE [ok |-> TRUE, msg |-> "Copied", hasBIM |-> TRUE,
              BIMProperties |-> quantities]

\* pull_all_ifc_quantities_to_blender(obj, ifc_path): the outcomes
\* [raised, ok, msg, cache, hasBIM, BIMProperties]
pull_all_ifc_quantities_to_blender(obj, path, f, c, t, full) ==
    IF path = NoPath \/ ~f[path].exists
    THEN {[raised |-> FALSE, ok |-> FALSE, msg |-> "No IFC file path set or file does not exist",
           cache |-> c, hasBIM |-> obj.hasBIM, BIMProperties |-> obj.BIMProperties]}
    ELSE {IF e.raised
          THEN [raised |-> TRUE, ok |-> FALSE, msg |-> "raised", cache |-> e.cache,
                hasBIM |-> obj.hasBIM, BIMProperties |-> obj.BIMProperties]
          ELSE LET r == Resolve(obj, e.cache[e.ret].content)
               IN  [raised |-> FALSE, ok |-> r.ok, msg |-> r.msg, cache |-> e.cache,
                    hasBIM |-> r.hasBIM, BIMProperties |-> r.BIMProperties]
          : e \in ensure_ifc_txt_cache(f, c, path, t, full)}

(***************************************************************************)
(* Full-index mode: parse_ifc_entities_and_quantities and the rels /       *)
(* quantities lookup of select_matching_objects.get_bim_value.             *)
(***************************************************************************)
\* the digits of a reference token: m.group(1) of #(\d+)
Digits(tok) == ToString(RefNum(tok))

\* the fields of l after its opening parenthesis
Fields(l) == Split(SubSeq(l, 5, Len(l)), ",")
Head4(l, kws) == Len(l) >= 4 /\ l[1] \in RefToks /\ l[2] = "=" /\ l[3] \in kws /\ l[4] = "("

\* re.match(r'#(\d+)=IFCSLAB\(\'([^\']+)\',\$,' + r"'([\w_]+)'", line)
SlabPattern(l) ==
    /\ Head4(l, {"IFCSLAB"}) /\ Len(l) >= 9
    /\ l[5] \in QuotedToks /\ l[6] = "," /\ l[7] = "$" /\ l[8] = ","
    /\ l[9] \in WordQuotedToks

\* re.match(r'#(\d+)=IFCELEMENTQUANTITY\([^,]+,[^,]+,' + r"'([\w_]+)'", line)
ElementQuantityPattern(l) ==
    /\ Head4(l, {"IFCELEMENTQUANTITY"})
    /\ Len(Fields(l)) >= 3
    /\ Fields(l)[1] # <<>> /\ Fields(l)[2] # <<>>
    /\ Fields(l)[3] # <<>> /\ Fields(l)[3][1] \in WordQuotedToks

\* re.match(r'#(\d+)=IFCQUANTITY(AREA|VOLUME)\(' + r"'([\w_]+)'" + r',\$\$,([\d\.Ee\+-]+),', line)
AreaVolumePattern(l) ==
    /\ Head4(l, {"IFCQUANTITYAREA", "IFCQUANTITYVOLUME"}) /\ Len(l) >= 11
    /\ l[5] \in WordQuotedToks /\ l[6] = "," /\ l[7] = "$" /\ l[8] = "$" /\ l[9] = ","
    /\ l[10] \in NumericCharToks /\ l[11] = ","

\* re.match(r'#(\d+)=IFCRELDEFINESBYPROPERTIES\([^,]+,[^,]+,[^,]+,[^,]+,\((#[\d,]+)\),#(\d+)\);', line)
RelDefinesPattern(l) ==
    /\ Head4(l, {"IFCRELDEFINESBYPROPERTIES"})
    /\ Len(Fields(l)) >= 6
    /\ \A k \in 1 .. 4 : Fields(l)[k] # <<>>
    /\ Len(Fields(l)[5]) = 3
    /\ Fields(l)[5][1] = "(" /\ Fields(l)[5][2] \in RefToks /\ Fields(l)[5][3] = ")"
    /\ Len(Fields(l)[6]) >= 3
    /\ Fields(l)[6][1] \in RefToks /\ Fields(l)[6][2] = ")" /\ Fields(l)[6][3] = ";"

NoIndex == [entities |-> EmptyMap, rels |-> EmptyMap, quantities |-> EmptyMap,
            globalid_to_eid |-> EmptyMap, aborted |-> FALSE]

\* the four maps after the lines 1..n; float(qval) raising ends the loop
RECURSIVE IndexPass(_, _)
IndexPass(txt, n) ==
    IF n = 0 THEN NoIndex
    ELSE LET b == IndexPass(txt, n - 1)
             l == txt[n]
             eid == Digits(l[1])
             b1 == IF SlabPattern(l)
                   THEN [b EXCEPT !.entities = (eid :> [globalid |-> Unquote(l[5]),
                                                        name |-> Unquote(l[9])]) @@ @,
                                  !.globalid_to_eid = (Unquote(l[5]) :> eid) @@ @]
                   ELSE b
             b2 == IF ElementQuantityPattern(l)
                   THEN [b1 EXCEPT !.quantities =
                            (eid :> [kind |-> "qset", name |-> "", value |-> 0]) @@ @]
                   ELSE b1
             b3 == IF AreaVolumePattern(l)
                   THEN IF l[10] \in DOMAIN NumVal
                        THEN [b2 EXCEPT !.quantities =
                                 (eid :> [kind |-> "quantity", name |-> Unquote(l[5]),
                                          value |-> NumVal[l[10]]]) @@ @]
                        ELSE [b2 EXCEPT !.aborted = TRUE]
                   ELSE b2
             b4 == IF ~b3.aborted /\ RelDefinesPattern(l)
                   THEN [b3 EXCEPT !.rels =
                            (Digits(Fields(l)[5][2]) :> Digits(Fields(l)[6][1])) @@ @]
                   ELSE b3
         IN  IF b.aborted THEN b ELSE b4

parse_ifc_entities_and_quantities(f, path) ==
    IF f[path].exists /\ f[path].readable
    THEN IndexPass(f[path].content, Len(f[path].content))
    ELSE NoIndex

\* re.findall(r'#(\d+)', qid)
FindAllRefs(qid) == IF qid \in RefToks THEN <<Digits(qid)>> ELSE <<>>

\* name.replace('_', '').replace(' ', '').lower()
Normalize(name) ==
    CASE name = "NetArea" -> "netarea"
      [] name = "GrossArea" -> "grossarea"
      [] name = "NetVolume" -> "netvolume"
      [] name = "GrossVolume" -> "grossvolume"
      [] name = "Length" -> "length"
      [] OTHER -> name

\* get_bim_value, lines 459-467: [found, value]
get_bim_value(obj, param, index) ==
    LET globalid == IF Truthy(obj.IfcGlobalId) THEN obj.IfcGlobalId ELSE obj.GlobalId
        NotFound == [found |-> FALSE, value |-> 0]
    IN  IF Truthy(globalid) /\ globalid \in DOMAIN index.globalid_to_eid
        THEN LET eid == index.globalid_to_eid[globalid]
             IN  IF eid \in DOMAIN index.rels
                 THEN LET qrefs == FindAllRefs(index.rels[eid])
                          hit(i) == /\ qrefs[i] \in DOMAIN index.quantities
                                    /\ Normalize(index.quantities[qrefs[i]].name) = param
                      IN  IF \E i \in 1 .. Len(qrefs) : hit(i)
                          THEN [found |-> TRUE,
                                value |-> index.quantities[
                                    qrefs[CHOOSE i \in 1 .. Len(qrefs) :
                                            hit(i) /\ \A j \in 1 .. (i - 1) : ~hit(j)]].value]
                          ELSE NotFound
                 ELSE NotFound
        ELSE NotFound

\* the name -> value mapping full-index mode gives for obj
FullIndexQuantities(obj, index) ==
    [n \in {m \in QNames : get_bim_value(obj, Normalize(m), index).found}
        |-> get_bim_value(obj, Normalize(n), index).value]

(***************************************************************************)
(* Inputs: paths, files, scene objects.                                    *)
(***************************************************************************)
Path(d, s, e) == [dir |-> d, stem |-> s, ext |-> e]
SrcPath == Path("a", "x", "ifc")
SourcePaths == {SrcPath, Path("b", "x", "ifc"), Path("a", "x", "step"), Path("a", "y", "ifc")}
Stems == {get_ifc_txt_cache_path(p) : p \in SourcePaths}
Times == 0 .. MaxTime
NoSource == [exists |-> FALSE, readable |-> FALSE, mtime |-> 0, content |-> <<>>]

\* a scene object: its name, its custom properties, its BIMProperties
MkObj(name, key, guid, hasBIM, bim) ==
    [name |-> name,
     IfcGuid |-> IF key = "IfcGuid" THEN guid ELSE None,
     GlobalId |-> IF key = "GlobalId" THEN guid ELSE None,
     globalid |-> IF key = "globalid" THEN guid ELSE None,
     IfcGlobalId |-> IF key = "IfcGlobalId" THEN guid ELSE None,
     hasBIM |-> hasBIM, BIMProperties |-> bim]

DisplayNames == {<<"Wall01">>, <<"IfcWall", "/", "Wall01">>, <<"IfcBeam", "/", "Beam01">>,
                 <<"Missing">>, <<"IfcWall", "/">>, <<>>,
                 <<"Wall">>, <<"Site", "/", "IfcWall", "/", "Wall01">>}
GuidProps == {<<"IfcGuid", None>>, <<"IfcGuid", "G1">>, <<"IfcGuid", "G2">>,
              <<"GlobalId", "G1">>, <<"GlobalId", "G2">>, <<"IfcGuid", "G3">>}
ManualProps == ("ManualVolume" :> 30)
MixedProps == ("NetArea" :> 10) @@ ("ManualSurfaceArea" :> 20)
BIMStates == {<<FALSE, EmptyMap>>, <<TRUE, ManualProps>>, <<TRUE, MixedProps>>}

\* the declarations of the files
Elem(ref, kw, guid, label) == [ref |-> ref, kw |-> kw, guid |-> guid, label |-> label]
Rel(ref, subjects, target) == [ref |-> ref, subjects |-> subjects, target |-> target]
QSet(ref, kw, name, members) == [ref |-> ref, kw |-> kw, name |-> name, members |-> members]
Quant(ref, kw, name, fmt, val) ==
    [ref |-> ref, kw |-> kw, name |-> name, fmt |-> fmt, val |-> val]

QNameAt == <<"NetArea", "GrossArea", "NetVolume", "GrossVolume", "Length">>
QValAt == <<"12.5", "15.0", "7.0", "3.5", "15">>
QKwAt == <<"IFCQUANTITYAREA", "IFCQUANTITYAREA", "IFCQUANTITYVOLUME",
           "IFCQUANTITYVOLUME", "IFCQUANTITYLENGTH">>
MalformedVals == {"abc", "1.2.3"}

\* the quantity declarations #30.. of a set of n members, the bad-th malformed
Quants(n, fmt, bad, badval) ==
    [i \in 1 .. n |-> Quant(29 + i, QKwAt[i], QNameAt[i], fmt,
                            IF i = bad THEN badval ELSE QValAt[i])]
Members(n) == [i \in 1 .. n |-> 29 + i]

StdElems == <<Elem(12, "IFCSLAB", "G1", "Wall01"), Elem(13, "IFCBEAM", "G2", "Beam01")>>

\* files that vary the element declarations over a fixed quantity chain
MatchFiles ==
    {[pre |-> pre,
      elems |-> <<Elem(12, k1, g1, l1), Elem(13, k2, g2, l2)>>,
      rels |-> <<Rel(40, <<12>>, 20), Rel(41, <<13>>, 20)>>,
      qsets |-> <<QSet(20, "IFCELEMENTQUANTITY", "BaseQuantities", Members(3))>>,
      quants |-> Quants(3, "std", 0, "abc")] :
        k1 \in {"IFCSLAB", "IFCBEAM"}, g1 \in {"G1", "G2"}, l1 \in {"Wall01", "Beam01", ""},
        k2 \in {"IFCSLAB", "IFCBEAM"}, g2 \in {"G1", "G2"}, l2 \in {"Wall01", "Beam01"},
        pre \in {<<>>, <<QSet(5, "IFCPROPERTYSET", "Wall01", <<6>>)>>}}

SubjectLists == {<<12>>, <<13>>, <<12, 13>>, <<13, 12>>}

\* files that vary the quantity chain over fixed element declarations
ChainFiles ==
    {[pre |-> <<>>,
      elems |-> StdElems,
      rels |-> <<Rel(40, subj, 20)>> \o more,
      qsets |-> <<QSet(20, "IFCELEMENTQUANTITY", "BaseQuantities", Members(n))>>,
      quants |-> Quants(n, fmt, bad, "abc")] :
        subj \in SubjectLists,
        more \in {<<>>, <<Rel(41, <<12>>, 21)>>, <<Rel(41, <<13>>, 20)>>},
        n \in 1 .. MaxMembers, fmt \in {"std", "dd"}, bad \in {0, 2}}

\* files whose relationships, quantity sets and quantity declarations may be
\* missing, and whose quantities may share a name: two sets #20 and #21 of
\* MaxMembers members each, the quantity lines in reference order or reversed
SetMembers(s) == [i \in 1 .. MaxMembers |-> 29 + (s - 1) * MaxMembers + i]
EdgeRels == {<<>>, <<Rel(40, <<12>>, 20)>>, <<Rel(40, <<13>>, 20)>>,
             <<Rel(40, <<12>>, 20), Rel(41, <<12>>, 21)>>,
             <<Rel(40, <<12>>, 20), Rel(41, <<13>>, 21)>>}
EdgeQSets == {[s \in 1 .. k |-> QSet(19 + s, "IFCELEMENTQUANTITY", "BaseQuantities",
                                     SetMembers(s))] : k \in 0 .. 2}
Reverse(s) == [i \in 1 .. Len(s) |-> s[Len(s) + 1 - i]]
EdgeQuants ==
    {IF order = "rev" THEN Reverse(qs) ELSE qs :
        order \in {"fwd", "rev"},
        qs \in {[j \in 1 .. n |->
                    Quant(29 + j, QKwAt[((j - 1) % 5) + 1],
                          IF dup THEN "NetArea" ELSE QNameAt[((j - 1) % 5) + 1],
                          "std", QValAt[((j - 1) % 4) + 1])] :
                 n \in {0, 2 * MaxMembers}, dup \in BOOLEAN}}
EdgeFiles ==
    {[pre |-> <<>>, elems |-> StdElems, rels |-> rels, qsets |-> qsets, quants |-> quants] :
        rels \in EdgeRels, qsets \in EdgeQSets, quants \in EdgeQuants}

MatchObjects ==
    {MkObj(name, g[1], g[2], FALSE, EmptyMap) : name \in DisplayNames, g \in GuidProps}
ChainObjects ==
    {MkObj(name, "IfcGuid", None, b[1], b[2]) :
        name \in {<<"IfcWall", "/", "Wall01">>, <<"Beam01">>}, b \in BIMStates}

(***************************************************************************)
(* OBJECT_OT_pull_all_ifc_quantities.execute                               *)
(***************************************************************************)
NoCall == [op |-> "none", obj |-> 0, src |-> NoPath, ret |-> "", raised |-> FALSE,
           ok |-> FALSE, msg |-> "", copied |-> FALSE, again |-> FALSE]

\* updated = 0; errors = []; wm.progress_begin(0, len(selected))
Begin ==
    /\ pc = "idle"
    /\ pc' = "loop"
    /\ idx' = 0
    /\ updated' = 0
    /\ errors' = <<>>
    /\ last' = NoCall
    /\ start' = [cache |-> cache, objects |-> objects]
    /\ UNCHANGED <<decls, files, cache, now, diskFull, objects, selected, ifc_path, writes>>

\* the loop body with the pull made for the first selected object in every
\* iteration, instead of the object of the iteration
Step_first_object ==
    /\ pc = "loop"
    /\ idx < Len(selected)
    /\ LET o == selected[idx + 1]
           a == selected[1]
       IN  \E r \in pull_all_ifc_quantities_to_blender(objects[a], ifc_path, files,
                                                       cache, now, diskFull) :
              /\ cache' = r.cache
              /\ objects' = [objects EXCEPT ![a].hasBIM = r.hasBIM,
                                            ![a].BIMProperties = r.BIMProperties]
              /\ last' = [NoCall EXCEPT !.op = "pull", !.obj = o, !.src = ifc_path,
                                         !.raised = r.raised, !.ok = r.ok, !.msg = r.msg]
              /\ IF r.raised
                 THEN pc' = "raised" /\ UNCHANGED <<idx, updated, errors>>
                 ELSE /\ pc' = pc
                      /\ idx' = idx + 1
                      /\ IF r.ok
                         THEN updated' = updated + 1 /\ errors' = errors
                         ELSE updated' = updated /\
                              errors' = Append(errors, [obj |-> o, msg |-> r.msg])
    /\ UNCHANGED <<start, decls, files, now, diskFull, selected, ifc_path, writes>>

\* one iteration of the loop: pull, then updated += 1 or errors.append(...)
Step ==
    /\ pc = "loop"
    /\ idx < Len(selected)
    /\ LET o == selected[idx + 1]
       IN  \E r \in pull_all_ifc_quantities_to_blender(objects[o], ifc_path, files,
                                                       cache, now, diskFull) :
              /\ cache' = r.cache
              /\ objects' = [objects EXCEPT ![o].hasBIM = r.hasBIM,
                                            ![o].BIMProperties = r.BIMProperties]
              /\ last' = [NoCall EXCEPT !.op = "pull", !.obj = o, !.src = ifc_path,
                                         !.raised = r.raised, !.ok = r.ok, !.msg = r.msg]
              /\ IF r.raised
                 THEN pc' = "raised" /\ UNCHANGED <<idx, updated, errors>>
                 ELSE /\ pc' = pc
                      /\ idx' = idx + 1
                      /\ IF r.ok
                         THEN updated' = updated + 1 /\ errors' = errors
                         ELSE updated' = updated /\
                              errors' = Append(errors, [obj |-> o, msg |-> r.msg])
    /\ UNCHANGED <<start, decls, files, now, diskFull, selected, ifc_path, writes>>

\* wm.progress_end(); self.report(...); return {'FINISHED'}
End ==
    /\ pc = "loop"
    /\ idx = Len(selected)
    /\ pc' = "finished"
    /\ UNCHANGED <<start, decls, files, cache, now, diskFull, objects, selected, ifc_path,
                   idx, updated, errors, last, writes>>

Next == Begin \/ Step \/ End

\* one object, one readable source file, no cached copy yet
Init ==
    /\ \E d \in MatchFiles \cup ChainFiles \cup EdgeFiles :
          /\ decls = d
          /\ files = [p \in SourcePaths |->
                         IF p = SrcPath
                         THEN [exists |-> TRUE, readable |-> TRUE, mtime |-> 1,
                               content |-> FileText(d)]
                         ELSE NoSource]
          /\ \E o \in (IF d \in MatchFiles THEN MatchObjects ELSE ChainObjects) :
                objects = <<o>>
    /\ selected = <<1>>
    /\ ifc_path = SrcPath
    /\ cache = [s \in Stems |-> NoFile]
    /\ now = 1
    /\ diskFull = FALSE
    /\ pc = "idle"
    /\ idx = 0
    /\ updated = 0
    /\ errors = <<>>
    /\ last = NoCall
    /\ writes = 0
    /\ start = [cache |-> cache, objects |-> objects]

Spec == Init /\ [][Next]_vars

(***************************************************************************)
(* The call the claims below speak of: the pull of the one selected        *)
(* object, against the cached copy of the source file.                     *)
(***************************************************************************)
Pulled == last.op = "pull" /\ ~last.raised /\ last.msg # "No IFC file path set or file does not exist"
TheObj == objects[last.obj]
CacheText == cache[get_ifc_txt_cache_path(ifc_path)].content
Matched == match_ifc_element(TheObj, CacheText)
WellFormed(q) == q.fmt = "std" /\ q.val \in DOMAIN NumVal
QuantAt(ref) == CHOOSE q \in Range(decls.quants) : q.ref = ref
Declared(ref) == \E q \in Range(decls.quants) : q.ref = ref

\* C1 (resolution chain): when the matched entity E is the one subject of a
\* relationship whose target quantity set has members Q1..Qn, all declared and
\* well formed, the pull succeeds and BIMProperties holds name(Qi) -> value(Qi)
\* for every member Qi.
ResolutionChain ==
    Pulled =>
        \A e \in Range(decls.elems), r \in Range(decls.rels), qs \in Range(decls.qsets) :
            ( /\ Matched = ElementLine(e)
              /\ r.subjects = <<e.ref>>
              /\ qs.ref = r.target
              /\ Len(qs.members) >= 1
              /\ \A m \in Range(qs.members) : Declared(m) /\ WellFormed(QuantAt(m)) )
            => /\ last.ok
               /\ \A m \in Range(qs.members) :
                     /\ QuantAt(m).name \in DOMAIN TheObj.BIMProperties
                     /\ TheObj.BIMProperties[QuantAt(m).name] = NumVal[QuantAt(m).val]

\* C2 (relationship collection): the first pass collects exactly the targets of
\* the relationship declarations whose subjects contain the matched entity,
\* whether it is listed alone or with other entities.
RelationshipCollection ==
    Pulled =>
        \A e \in Range(decls.elems) :
            Matched = ElementLine(e) =>
                RelPass(CacheText, entity_ref_of(Matched)) =
                    {<<Ref(r.target)>> : r \in {x \in Range(decls.rels) :
                                                  e.ref \in Range(x.subjects)}}

\* C6 (merge policy): a successful pull for an object that already has a
\* property map sets every resolved name to its resolved value and keeps every
\* other key of the map, with its value.
MergePolicy ==
    [][(last'.op = "pull" /\ last'.ok /\ objects[last'.obj].hasBIM) =>
          LET old == objects[last'.obj].BIMProperties
              new == objects'[last'.obj].BIMProperties
              q == StreamQuantities(cache'[get_ifc_txt_cache_path(ifc_path)].content,
                     match_ifc_element(objects[last'.obj],
                        cache'[get_ifc_txt_cache_path(ifc_path)].content))
          IN  /\ \A k \in DOMAIN q : k \in DOMAIN new /\ new[k] = q[k]
              /\ \A k \in DOMAIN old \ DOMAIN q : k \in DOMAIN new /\ new[k] = old[k]]_vars

\* C7 (mode equivalence): for every element declaration of the file, the
\* name -> value mapping of full-index mode (the index of the source file, looked
\* up by the element's identifier) equals the mapping of the three streaming
\* passes for that element's line.
ModeEquivalence ==
    Pulled =>
        \A e \in Range(decls.elems) :
            FullIndexQuantities(MkObj(<<e.label>>, "GlobalId", e.guid, FALSE, EmptyMap),
                                parse_ifc_entities_and_quantities(files, ifc_path))
                = StreamQuantities(CacheText, ElementLine(e))

\* the third argument of every declaration of the file
ThirdArgs ==
    {e.label : e \in Range(decls.elems)} \cup
    {q.name : q \in Range(decls.pre) \cup Range(decls.qsets)}

\* C9 (identifier fallback): when no declaration's label equals the normalized
\* name and the object's identifier is that of some element declaration, of any
\* element kind and with a label, match_ifc_element returns the line of an
\* element declaration with that identifier.
IdentifierFallback ==
    ( /\ Pulled
      /\ Join(ObjName(TheObj)) \notin ThirdArgs
      /\ Truthy(ObjGuid(TheObj))
      /\ \E e \in Range(decls.elems) : e.guid = ObjGuid(TheObj) /\ e.label # "" )
    => \E e \in Range(decls.elems) :
          e.guid = ObjGuid(TheObj) /\ Matched = ElementLine(e)

\* the line's third argument is 'name'
HasLabel(line, name) ==
    line # NoLine /\ Len(Fields(line)) >= 3 /\ Fields(line)[3] = <<Quote(name)>>

\* C10 as stated (name precedence): whenever some element declaration's label
\* equals the normalized display name, match_ifc_element returns a line whose
\* label equals that name, whatever the object's identifier.
NamePrecedence ==
    Pulled =>
        ( (\E e \in Range(decls.elems) : e.label = Join(ObjName(TheObj)))
          => HasLabel(Matched, Join(ObjName(TheObj))) )

\* C10 as amended: the same, for a normalized display name that is not empty.
NamePrecedenceNonEmpty ==
    Pulled =>
        ( ( /\ Join(ObjName(TheObj)) # ""
            /\ \E e \in Range(decls.elems) : e.label = Join(ObjName(TheObj)) )
          => HasLabel(Matched, Join(ObjName(TheObj))) )

\* a pull whose object is named after one declaration and carries the
\* identifier of another, a slab with a different label: the name's line is matched
NamePrecedenceWitness ==
    /\ Pulled
    /\ Join(ObjName(TheObj)) # ""
    /\ \E e1, e2 \in Range(decls.elems) :
          /\ e1.label = Join(ObjName(TheObj))
          /\ e2.label # e1.label
          /\ e2.kw = "IFCSLAB"
          /\ e2.guid = ObjGuid(TheObj)
          /\ e1.guid # e2.guid
          /\ Matched = ElementLine(e1)

\* the identifier and the label of a declaration line: its first and third arguments
LineGuid(line) == Unquote(line[5])
LineLabel(line) == Unquote(Fields(line)[3][1])

\* C11 (cross-check warning): match_ifc_element prints a warning exactly when
\* (a) the name strategy matched and the object's identifier is present and
\* differs from the identifier of the matched declaration, or (b) the identifier
\* strategy matched and the label of the matched declaration differs from the
\* normalized name; the matched line is returned in both cases.  Stated for
\* objects whose normalized name is not empty.
CrossCheckWarning ==
    (Pulled /\ ObjName(TheObj) # <<>>) =>
        LET name == ObjName(TheObj)
            guid == ObjGuid(TheObj)
            byname == find_ifc_line_by_name(CacheText, name)
            a == /\ byname # NoLine /\ Matched = byname
                 /\ Truthy(guid) /\ guid # LineGuid(Matched)
            b == /\ byname = NoLine /\ Matched # NoLine
                 /\ LineLabel(Matched) # Join(name)
        IN  /\ (match_warnings(TheObj, CacheText) # {}) <=> (a \/ b)
            /\ (a \/ b) => Matched # NoLine

\* C12 (no-match outcome): when no element declaration has the normalized name
\* as its label and the object has no identifier or no element declaration has
\* its identifier, match_ifc_element returns None and the pull returns
\* (False, diagnostic) without raising.
NoMatchOutcome ==
    ( /\ Pulled
      /\ \A e \in Range(decls.elems) : e.label # Join(ObjName(TheObj))
      /\ \/ ~Truthy(ObjGuid(TheObj))
         \/ \A e \in Range(decls.elems) : e.guid # ObjGuid(TheObj) )
    => /\ Matched = NoLine
       /\ ~last.ok /\ ~last.raised
       /\ last.msg = "No matching IFC element found"

\* the relationships whose subjects contain e, and the sets they target
RelsOf(e) == {r \in Range(decls.rels) : e.ref \in Range(r.subjects)}
SetsOf(e) == {qs \in Range(decls.qsets) : \E r \in RelsOf(e) : qs.ref = r.target}

\* C13 (NotFound): when no relationship references the matched element, or the
\* relationships that do have targets that are never declared, or the target
\* sets have no member that is a declared quantity, the pull returns
\* (False, "No IFC quantities found"); and no pull returns True with an empty
\* mapping.
NotFound ==
    Pulled =>
        /\ \A e \in Range(decls.elems) :
              ( /\ Matched = ElementLine(e)
                /\ \/ RelsOf(e) = {}
                   \/ SetsOf(e) = {}
                   \/ \A qs \in SetsOf(e) : \A m \in Range(qs.members) : ~Declared(m) )
              => /\ ~last.ok
                 /\ last.msg = "No IFC quantities found"
        /\ last.ok => TheObj.BIMProperties # EmptyMap

\* a pull for an element that a relationship references, whose target set is
\* declared with members of which none is declared: not found
NotFoundWitness ==
    /\ Pulled
    /\ \E e \in Range(decls.elems) :
          /\ Matched = ElementLine(e)
          /\ SetsOf(e) # {}
          /\ \A qs \in SetsOf(e) :
                qs.members # <<>> /\ \A m \in Range(qs.members) : ~Declared(m)
    /\ ~last.ok
    /\ last.msg = "No IFC quantities found"

\* C14 (malformed-declaration tolerance): when the quantity set of the matched
\* element, the one subject of its relationship, has one member whose value is
\* not a number and k >= 1 other members, all well formed, the pull does not
\* raise, succeeds, and BIMProperties holds exactly the k well-formed entries.
MalformedTolerance ==
    Pulled =>
        \A e \in Range(decls.elems), r \in Range(decls.rels), qs \in Range(decls.qsets) :
            LET good == {m \in Range(qs.members) : Declared(m) /\ WellFormed(QuantAt(m))}
                bad == {m \in Range(qs.members) :
                           /\ Declared(m) /\ QuantAt(m).fmt = "std"
                           /\ QuantAt(m).val \notin DOMAIN NumVal}
            IN  ( /\ Matched = ElementLine(e)
                  /\ r.subjects = <<e.ref>>
                  /\ qs.ref = r.target
                  /\ Cardinality(bad) = 1
                  /\ good # {}
                  /\ good \cup bad = Range(qs.members) )
                => /\ ~last.raised
                   /\ last.ok
                   /\ DOMAIN TheObj.BIMProperties = {QuantAt(m).name : m \in good}
                   /\ \A m \in good :
                         TheObj.BIMProperties[QuantAt(m).name] = NumVal[QuantAt(m).val]

\* the earliest of the lines of the cache numbered by the set c
Earliest(c) == CacheText[CHOOSE i \in c : \A j \in c : i <= j]

\* C17 (first occurrence wins): when several declarations of the file carry the
\* searched label, find_ifc_line_by_name returns the earliest of them in file
\* order; when several element declarations carry the searched identifier,
\* find_ifc_line_by_guid returns the earliest of them.  Stated for files whose
\* element declarations all have a label.
FirstOccurrenceWins ==
    (Pulled /\ \A e \in Range(decls.elems) : e.label # "") =>
        LET name == ObjName(TheObj)
            guid == ObjGuid(TheObj)
            sameLabel == {i \in 1 .. Len(CacheText) : HasLabel(CacheText[i], Join(name))}
            sameGuid == {i \in 1 .. Len(CacheText) :
                            \E e \in Range(decls.elems) :
                                CacheText[i] = ElementLine(e) /\ e.guid = guid}
        IN  /\ (name # <<>> /\ Cardinality(sameLabel) >= 2)
                  => find_ifc_line_by_name(CacheText, name) = Earliest(sameLabel)
            /\ (Truthy(guid) /\ Cardinality(sameGuid) >= 2)
                  => find_ifc_line_by_guid(CacheText, guid) = Earliest(sameGuid)

\* the positions, in the file, of the well-formed quantity declarations named n
\* that are members of a set of e
ReachableNamed(e, n) ==
    {i \in 1 .. Len(decls.quants) :
        /\ decls.quants[i].name = n
        /\ WellFormed(decls.quants[i])
        /\ \E qs \in SetsOf(e) : decls.quants[i].ref \in Range(qs.members)}

\* C18 (last write wins): when two or more quantity declarations reachable from
\* the matched element carry the same name, BIMProperties holds for that name
\* the value of the one that comes last in the file.
LastWriteWins ==
    Pulled =>
        \A e \in Range(decls.elems), n \in QNames :
            (Matched = ElementLine(e) /\ Cardinality(ReachableNamed(e, n)) >= 2)
            => LET latest == CHOOSE i \in ReachableNamed(e, n) :
                                \A j \in ReachableNamed(e, n) : j <= i
               IN  /\ last.ok
                   /\ n \in DOMAIN TheObj.BIMProperties
                   /\ TheObj.BIMProperties[n] = NumVal[decls.quants[latest].val]

\* the part of a display name after its last '/', the whole name without one
AfterLastSlash(n) == SubSeq(n, RFind(n, "/") + 1, Len(n))

MatchedLineIsElement ==
    (Pulled /\ ObjName(TheObj) # <<>>) =>
        LET byname == find_ifc_line_by_name(CacheText, ObjName(TheObj))
        IN  byname # NoLine =>
                /\ Matched = byname
                /\ \E e \in Range(decls.elems) : Matched = ElementLine(e)

\* the quantity sets that are targets of relationships whose subjects contain
\* the entity numbered ref
SetsOfRef(ref) ==
    {qs \in Range(decls.pre) \cup Range(decls.qsets) :
        \E r \in Range(decls.rels) : ref \in Range(r.subjects) /\ qs.ref = r.target}

\* C22 (resolution soundness): after a successful pull, every entry
\* name -> value of BIMProperties is the name and value of a quantity
\* declaration that is a member of a quantity set that is the target of a
\* relationship whose subjects contain the matched entity.
ResolutionSoundness ==
    (Pulled /\ last.ok) =>
        LET ref == RefNum(entity_ref_of(Matched)[1])
        IN  \A n \in DOMAIN TheObj.BIMProperties :
                \E q \in Range(decls.quants) :
                    /\ q.name = n
                    /\ q.val \in DOMAIN NumVal
                    /\ NumVal[q.val] = TheObj.BIMProperties[n]
                    /\ \E qs \in SetsOfRef(ref) : q.ref \in Range(qs.members)

\* a successful pull for an element whose file also declares a quantity that
\* is a member of the set of another element only: its name is not in the result
ResolutionSoundnessWitness ==
    /\ Pulled /\ last.ok
    /\ TheObj.BIMProperties # EmptyMap
    /\ \E e1, e2 \in Range(decls.elems), q \in Range(decls.quants) :
          /\ e1 # e2
          /\ Matched = ElementLine(e1)
          /\ WellFormed(q)
          /\ \E qs \in SetsOfRef(e2.ref) : q.ref \in Range(qs.members)
          /\ \A qs \in SetsOfRef(e1.ref) : q.ref \notin Range(qs.members)
          /\ q.name \notin DOMAIN TheObj.BIMProperties

(***************************************************************************)
(* The batch operator over several objects, with a source file that may be *)
(* missing or unreadable, a cache volume that may be full, and a cached    *)
(* copy that may already exist.                                            *)
(***************************************************************************)
StdFile ==
    [pre |-> <<>>, elems |-> StdElems,
     rels |-> <<Rel(40, <<12>>, 20), Rel(41, <<13>>, 21)>>,
     qsets |-> <<QSet(20, "IFCELEMENTQUANTITY", "BaseQuantities", Members(3))>>,
     quants |-> Quants(3, "std", 0, "abc")]

BatchObjects ==
    {MkObj(name, "IfcGuid", None, b[1], b[2]) :
        name \in {<<"IfcWall", "/", "Wall01">>, <<"Beam01">>, <<"Missing">>},
        b \in {<<FALSE, EmptyMap>>, <<TRUE, ManualProps>>}}

SourceStates ==
    {[exists |-> TRUE, readable |-> TRUE, mtime |-> 1, content |-> FileText(StdFile)],
     [exists |-> TRUE, readable |-> FALSE, mtime |-> 1, content |-> FileText(StdFile)],
     NoSource}

\* another source file with the same base name, and its cached copy
OtherPath == Path("b", "x", "ifc")
OtherSource ==
    [exists |-> TRUE, readable |-> TRUE, mtime |-> 0,
     content |-> <<ElementLine(Elem(14, "IFCWALL", "G3", "Beam01"))>>]
OtherCopy == [exists |-> TRUE, mtime |-> OtherSource.mtime, content |-> OtherSource.content]

\* no cached copy, the copy of the source as it is, an older copy of it, the
\* copy of the other source
CacheStates ==
    {NoFile,
     [exists |-> TRUE, mtime |-> 1, content |-> FileText(StdFile)],
     [exists |-> TRUE, mtime |-> 0, content |-> SubSeq(FileText(StdFile), 1, 2)],
     OtherCopy}

BatchInit ==
    /\ decls = StdFile
    /\ \E src \in SourceStates, c \in CacheStates :
          /\ files = [p \in SourcePaths |->
                         IF p = SrcPath THEN src
                         ELSE IF p = OtherPath /\ c = OtherCopy THEN OtherSource
                         ELSE NoSource]
          /\ cache = [s \in Stems |->
                         IF s = get_ifc_txt_cache_path(SrcPath) THEN c ELSE NoFile]
    /\ \E n \in 1 .. MaxObjs :
          /\ objects \in [1 .. n -> BatchObjects]
          /\ selected = [i \in 1 .. n |-> i]
    /\ ifc_path \in {SrcPath, NoPath}
    /\ now = MaxTime
    /\ diskFull \in BOOLEAN
    /\ pc = "idle"
    /\ idx = 0
    /\ updated = 0
    /\ errors = <<>>
    /\ last = NoCall
    /\ writes = 0
    /\ start = [cache |-> cache, objects |-> objects]

BatchSpec == BatchInit /\ [][Next]_vars

\* C5 (batch completion): when execute ends, all N selected objects have been
\* attempted and each has one outcome, updated or an error entry.
BatchCompletion ==
    pc \in {"finished", "raised"} =>
        idx = Len(selected) /\ updated + Len(errors) = Len(selected)

\* C20 (state unchanged on failure): a pull that returns False or raises
\* leaves the property maps of all objects, its own and those processed
\* earlier, and the cached files of the other source files as they were.
UnchangedOnFailure ==
    [][(last'.op = "pull" /\ (last'.raised \/ ~last'.ok)) =>
          /\ objects' = objects
          /\ \A p \in SourcePaths \ {ifc_path} :
                files[p].exists =>
                    cache'[get_ifc_txt_cache_path(p)] = cache[get_ifc_txt_cache_path(p)]]_vars

\* C23 (order independence): the pull made for an object at any position of
\* the batch has the outcome (raised or not, success flag, message, resulting
\* property map) of the pull made for that object alone, in the state in which
\* execute was entered; so the outcome is the same in every processing order.
OrderIndependence ==
    [][last'.op = "pull" =>
          LET o == last'.obj
          IN  \A r \in pull_all_ifc_quantities_to_blender(start.objects[o], ifc_path, files,
                                                          start.cache, now, diskFull) :
                  /\ r.raised = last'.raised
                  /\ r.ok = last'.ok
                  /\ r.msg = last'.msg
                  /\ r.hasBIM = objects'[o].hasBIM
                  /\ r.BIMProperties = objects'[o].BIMProperties]_vars

\* the second object of a batch has been pulled with success, after a first
\* pull for a different object that failed and that refreshed the cache
OrderIndependenceWitness ==
    /\ pc = "loop" /\ idx = 2
    /\ last.op = "pull" /\ last.obj = 2 /\ last.ok
    /\ updated = 1 /\ Len(errors) = 1
    /\ start.objects[1].name # start.objects[2].name
    /\ start.cache # cache
    /\ objects[2].BIMProperties # start.objects[2].BIMProperties

(***************************************************************************)
(* The cache manager under writes of the source files.                     *)
(***************************************************************************)
ContentA == <<ElementLine(Elem(12, "IFCSLAB", "G1", "Wall01")),
              ElementLine(Elem(13, "IFCBEAM", "G2", "Beam01"))>>
ContentB == <<ElementLine(Elem(12, "IFCSLAB", "G1", "Wall01")),
              ElementLine(Elem(14, "IFCWALL", "G3", "Beam01"))>>
Contents == {ContentA, ContentB}

\* the environment writes a source file and sets its modification time
WriteSource(p, content, t) ==
    /\ pc = "cache"
    /\ writes < MaxWrites
    /\ writes' = writes + 1
    /\ files' = [files EXCEPT ![p] = [exists |-> TRUE, readable |-> TRUE, mtime |-> t,
                                      content |-> content]]
    /\ last' = NoCall
    /\ UNCHANGED <<start, decls, cache, now, diskFull, objects, selected, ifc_path, pc, idx,
                   updated, errors>>

\* the environment makes a source file unreadable
Revoke(p) ==
    /\ pc = "cache"
    /\ writes < MaxWrites
    /\ files[p].exists /\ files[p].readable
    /\ writes' = writes + 1
    /\ files' = [files EXCEPT ![p].readable = FALSE]
    /\ last' = NoCall
    /\ UNCHANGED <<start, decls, cache, now, diskFull, objects, selected, ifc_path, pc, idx,
                   updated, errors>>

\* the environment removes a source file
Delete(p) ==
    /\ pc = "cache"
    /\ writes < MaxWrites
    /\ files[p].exists
    /\ writes' = writes + 1
    /\ files' = [files EXCEPT ![p] = NoSource]
    /\ last' = NoCall
    /\ UNCHANGED <<start, decls, cache, now, diskFull, objects, selected, ifc_path, pc, idx,
                   updated, errors>>

\* a call ensure_ifc_txt_cache(p); again: the call before it was a call for p
\* that returned, and no source file was touched since
Ensure(p) ==
    /\ pc = "cache"
    /\ \E o \in ensure_ifc_txt_cache(files, cache, p, now, diskFull) :
          /\ cache' = o.cache
          /\ last' = [NoCall EXCEPT !.op = "ensure", !.src = p, !.ret = o.ret,
                                     !.raised = o.raised, !.ok = ~o.raised,
                                     !.copied = o.copied,
                                     !.again = (last.op = "ensure" /\ ~last.raised
                                                /\ last.src = p)]
    /\ UNCHANGED <<start, decls, files, now, diskFull, objects, selected, ifc_path, pc, idx,
                   updated, errors, writes>>

CacheNext ==
    \/ \E p \in SourcePaths, content \in Contents, t \in Times : WriteSource(p, content, t)
    \/ \E p \in SourcePaths : Revoke(p)
    \/ \E p \in SourcePaths : Delete(p)
    \/ \E p \in SourcePaths : Ensure(p)

CacheInit ==
    /\ decls = StdFile
    /\ files = [p \in SourcePaths |-> NoSource]
    /\ cache = [s \in Stems |-> NoFile]
    /\ objects = <<>>
    /\ selected = <<>>
    /\ ifc_path = NoPath
    /\ now = MaxTime
    /\ diskFull \in BOOLEAN
    /\ pc = "cache"
    /\ idx = 0
    /\ updated = 0
    /\ errors = <<>>
    /\ last = NoCall
    /\ writes = 0
    /\ start = [cache |-> cache, objects |-> objects]

CacheSpec == CacheInit /\ [][CacheNext]_vars

Returned == last.op = "ensure" /\ ~last.raised

\* C3 (cache freshness): whenever ensure_ifc_txt_cache(S) returns the path C,
\* C exists and its content is the content of S at that time.  Stated for the
\* runs the claim speaks of: writes of S alone, at any modification times, and
\* copies that do not fail.
CacheFreshness ==
    ( /\ Returned
      /\ ~diskFull
      /\ \A p \in SourcePaths \ {last.src} : ~files[p].exists )
    => /\ cache[last.ret].exists
       /\ cache[last.ret].content = files[last.src].content

\* C4 (cache path uniqueness): when ensure_ifc_txt_cache(B) returns right after
\* ensure_ifc_txt_cache(A) returned, for distinct sources A and B, the two cache
\* paths differ and each cache file holds the content of its own source.
CachePathUniqueness ==
    [][( /\ Returned
         /\ last'.op = "ensure" /\ ~last'.raised
         /\ last'.src # last.src )
       => /\ last'.ret # last.ret
          /\ cache'[last.ret].content = files[last.src].content
          /\ cache'[last'.ret].content = files[last'.src].content]_vars

\* C8 (atomic cache refresh): a step of ensure_ifc_txt_cache leaves every cache
\* file either as it was or as the complete copy of the source, also when the
\* copy fails part-way.
AtomicRefresh ==
    [][\A s \in Stems :
          \/ cache'[s] = cache[s]
          \/ /\ last'.op = "ensure"
             /\ cache'[s].exists
             /\ cache'[s].content = files[last'.src].content]_vars

\* C15 (cache idempotence): a call ensure_ifc_txt_cache(S) that follows a call
\* for S that returned, with no source file touched in between, returns, performs
\* no copy and leaves the cache as it is; and a call performs a copy only when
\* the cached file does not exist or its modification time is strictly earlier
\* than the source's.
CacheIdempotence ==
    [][last'.op = "ensure" =>
          LET txt == get_ifc_txt_cache_path(last'.src)
          IN  /\ last'.again => (~last'.raised /\ ~last'.copied /\ cache' = cache)
              /\ last'.copied =>
                    \/ ~cache[txt].exists
                    \/ cache[txt].mtime < files[last'.src].mtime]_vars

\* a second call for the same source, right after a first that returned: it
\* returned the cached copy of the source without copying
CacheIdempotenceWitness ==
    /\ last.op = "ensure" /\ last.again /\ ~last.raised /\ ~last.copied
    /\ ~diskFull
    /\ cache[last.ret].exists
    /\ cache[last.ret].mtime = files[last.src].mtime
    /\ cache[last.ret].content = files[last.src].content

\* C16 (I/O error): a call ensure_ifc_txt_cache(S) for a source that does not
\* exist or is unreadable raises, whatever the state of the cached file, and
\* leaves the cache as it is.
IoErrorOnBadSource ==
    [][( /\ last'.op = "ensure"
         /\ ~files[last'.src].exists \/ ~files[last'.src].readable )
       => (last'.raised /\ cache' = cache)]_vars

====
